---- MODULE Spec2Model ----
(***************************************************************************)
(* Model of exports.handler of s3-deployment-custom-resource/index.js: the *)
(* CloudFormation custom resource that unpacks package.zip from a build    *)
(* artifact, publishes its files to the destination bucket, optionally     *)
(* invalidates CloudFront and answers the request's ResponseURL.           *)
(*                                                                         *)
(* One action is one run-to-completion turn of the Node event loop: the    *)
(* synchronous body of the handler, or one collaborator callback.          *)
(*                                                                         *)
(* JavaScript strings that the code takes apart or puts together are       *)
(* sequences of tokens (<<"Deployment", "::", "b1">>); "::" is one token.  *)
(* The value undefined is the one-token sequence Undefined, the empty      *)
(* string is <<>>.                                                         *)
(*                                                                         *)
(* What the environment is taken to do:                                    *)
(*  - every event carries ResourceProperties (CloudFormation always sends  *)
(*    it); Options may be absent;                                          *)
(*  - every collaborator call answers with an error or with data; a        *)
(*    listObjects without a Bucket, or on a bucket that does not exist,    *)
(*    answers with an error;                                               *)
(*  - AdmZip throws on a missing file and on a file that is no archive;    *)
(*    an exception that escapes a callback ends the process, so no later   *)
(*    callback of that invocation runs;                                    *)
(*  - writeFileSync and extractEntryTo may fail and then leave the file    *)
(*    as it was; deleteFolderRecursive and mkdirSync succeed;              *)
(*  - /tmp outlives an invocation when the execution environment is        *)
(*    reused, the buckets always do.                                       *)
(***************************************************************************)
EXTENDS Integers, Sequences, FiniteSets, TLC

VARIABLES
    pc,             \* "idle" before the first invocation, "running", "crashed" (uncaught exception)
    event,          \* the event of the current invocation
    pending,        \* collaborator requests whose callback has not run yet
    par,            \* the state of async.parallel: results, completed, whether its callback ran
    responses,      \* the calls of sendCloudFormationResponse of this invocation, in order
    calls,          \* the collaborator calls and entry extractions of this invocation, in order
    completions,    \* the calls of the invocation's own callback, in order, each with the PUT it follows
    delivered,      \* the collaborator callbacks that ran in this invocation, with their outcome
    bucket,         \* the keys held by each bucket of the object store
    scratch,        \* /tmp of the execution environment: artifact.zip, package.zip, dist
    distributionId, \* whether CLOUD_FRONT_DISTRIBUTION_ID is set
    history         \* what earlier invocations did (recorded under SpecHistory only)

vars == <<pc, event, pending, par, responses, calls, completions, delivered, bucket,
          scratch, distributionId, history>>

----------------------------------------------------------------------------
(* Bounds of the model.                                                    *)

\* number of distinct file entries a package.zip may hold
MaxFiles == 2

----------------------------------------------------------------------------
(* JavaScript values.                                                      *)

Undefined == <<"undefined">>

\* !x for a string-or-undefined x
Falsy(x) == x = Undefined \/ x = <<>>

SUCCESS == "SUCCESS"
FAILED == "FAILED"
UPDATE == "Update"
CREATE == "Create"
DELETE == "Delete"

ExpectedLogicalResourceId == "WebsiteDeployment"

\* context.logStreamName
logStreamName == <<"logStream">>

RECURSIVE SplitFrom(_, _, _)
\* the pieces of s between occurrences of the token sep, cur being the piece under way
SplitFrom(s, sep, cur) ==
    IF s = <<>> THEN <<cur>>
    ELSE IF Head(s) = sep THEN <<cur>> \o SplitFrom(Tail(s), sep, <<>>)
    ELSE SplitFrom(Tail(s), sep, Append(cur, Head(s)))

\* String.prototype.split
Split(s, sep) == SplitFrom(s, sep, <<>>)

\* const [, Bucket] = resourceId.split('::')
SecondOf(parts) == IF Len(parts) >= 2 THEN parts[2] ELSE Undefined

\* an array slot that was never assigned
Hole == <<"empty">>

\* the length of a JavaScript array kept as a sequence with holes: one more than the
\* last assigned index
ArrayLength(arr) ==
    LET set == {i \in 1..Len(arr) : arr[i] # Hole}
    IN  IF set = {} THEN 0 ELSE CHOOSE i \in set : \A j \in set : j <= i

RECURSIVE Join(_)
\* Array.prototype.join: the elements joined by ",", holes and undefined as ""
Join(arr) ==
    IF arr = <<>> THEN <<>>
    ELSE (IF Head(arr) \in {Undefined, Hole} THEN <<>> ELSE Head(arr))
         \o (IF Len(arr) > 1 THEN <<",">> ELSE <<>>)
         \o Join(Tail(arr))

\* `${arr}` of a template literal: Array.prototype.toString
ArrayToString(arr) == Join(SubSeq(arr, 1, ArrayLength(arr)))

----------------------------------------------------------------------------
(* The inputs: events, archives, the object store.                         *)

\* the buckets of the object store
BucketNames == {<<"b1">>}

AllFileNames == <<"a.txt", "b/c.css", "d.js", "e/f.png">>
FileNames == {AllFileNames[i] : i \in 1..MaxFiles}

\* an entry of package.zip: entryName (a one-token string), isDirectory
FileEntry(n) == [entryName |-> <<n>>, isDirectory |-> FALSE]
DirEntry == [entryName |-> <<"b/">>, isDirectory |-> TRUE]

\* the entries in archive order
AllEntries == <<FileEntry(AllFileNames[1]), DirEntry>>
              \o [i \in 1..(MaxFiles - 1) |-> FileEntry(AllFileNames[i + 1])]

\* the data of a successful listObjects: the keys of the bucket
Listing(Contents) == [kind |-> "list", entries |-> Contents]

\* the contents a scratch file or an archive entry can have
NoFile == [kind |-> "absent", entries |-> <<>>]
Malformed == [kind |-> "malformed", entries |-> <<>>]
Zip(entries) == [kind |-> "zip", entries |-> entries]

\* the package.zip archives: the first k entries, for every k (the empty archive, one
\* file, one file and a directory, ...), and a malformed one
Packages == {Zip(SubSeq(AllEntries, 1, k)) : k \in 0..Len(AllEntries)}
PackageContents == Packages \cup {Malformed}

\* an entry of the outer artifact
OuterEntry(n, c) == [entryName |-> <<n>>, isDirectory |-> FALSE, content |-> c]

\* the bodies getObject can deliver: not an archive, an archive without
\* package.zip, an archive holding package.zip
ArtifactBodies ==
    {Malformed, [kind |-> "zip", entries |-> <<OuterEntry("build/package.zip", Malformed)>>]}
    \cup {[kind |-> "zip", entries |-> <<OuterEntry("README.md", Malformed),
                                        OuterEntry("package.zip", c)>>] : c \in PackageContents}

OptionBags ==
    [SourceBucket : {Undefined, <<"src">>},
     SourceArtifact : {Undefined, <<"artifact.zip">>},
     DestinationBucket : {Undefined, <<>>} \cup BucketNames]

\* ResourceProperties.Options: absent ({}) or a bag ({bag})
OptionsValues == {{}} \cup {{o} : o \in OptionBags}

FullOptions(b) == [SourceBucket |-> <<"src">>, SourceArtifact |-> <<"artifact.zip">>,
                   DestinationBucket |-> b]

PhysicalIds == {Undefined, <<>>, <<"garbage">>, <<"Deployment", "::", "gone">>}
               \cup {<<"Deployment", "::">> \o b : b \in BucketNames}

\* the events CloudFormation (or any caller) can send
Events ==
    [LogicalResourceId : {ExpectedLogicalResourceId, "Other"},
     RequestType : {CREATE, UPDATE, "Replace"},
     Options : OptionsValues,
     PhysicalResourceId : {Undefined}]
    \cup
    [LogicalResourceId : {ExpectedLogicalResourceId, "Other"},
     RequestType : {DELETE},
     Options : {{}, {FullOptions(<<"b1">>)}},
     PhysicalResourceId : PhysicalIds]

----------------------------------------------------------------------------
(* sendCloudFormationResponse and the collaborator requests.               *)

\* a request handed to a collaborator (or the PUT to the ResponseURL), waiting
\* for its callback
Request(op, b, k, i) == [op |-> op, Bucket |-> b, Key |-> k, idx |-> i]

\* sendCloudFormationResponse up to request.end(): the body of the PUT
\* appended to the responses sent so far
sendCloudFormationResponse(sent, responseStatus, responseData, physicalResourceId) ==
    Append(sent, [Status |-> responseStatus,
                  PhysicalResourceId |-> IF Falsy(physicalResourceId) THEN logStreamName
                                         ELSE physicalResourceId,
                  Data |-> responseData])

\* the requests among reqs that wait for a callback: extractEntryTo is synchronous
Waiting(reqs) == {r \in {reqs[i] : i \in 1..Len(reqs)} : r.op # "extractEntryTo"}

\* the PUT requests issued for the responses appended to old to give new
HttpsPuts(old, new) ==
    {Request("httpsPut", Undefined, Undefined, i) : i \in (Len(old) + 1)..Len(new)}

Message(tokens) == [message |-> tokens]
OK == Message(<<"OK">>)

\* what one turn of the event loop did: the responses sent, the requests
\* issued (in order), the scratch files, async.parallel's state, whether an
\* exception escaped
Turn(sent, reqs, files, p, threw) ==
    [sent |-> sent, reqs |-> reqs, scratch |-> files, par |-> p, threw |-> threw]

NoPar == [n |-> 0, results |-> <<>>, completed |-> 0, done |-> FALSE]

EmptyScratch == [artifact |-> NoFile, package |-> NoFile, distExists |-> FALSE, dist |-> {}]

RECURSIVE SetToSeq(_)
\* the elements of a finite set in some fixed order
SetToSeq(S) ==
    IF S = {} THEN <<>>
    ELSE LET x == CHOOSE y \in S : TRUE IN <<x>> \o SetToSeq(S \ {x})

Range(s) == {s[i] : i \in 1..Len(s)}

----------------------------------------------------------------------------
(* cleanBucket.                                                            *)

\* a cleanBucket that signals SUCCESS without the id it was given
cleanBucket_NoEcho(resourceId, sent) ==
    IF Falsy(resourceId)
    THEN Turn(sendCloudFormationResponse(sent, FAILED,
                  Message(<<"Invalid physical resource id: ">> \o resourceId), Undefined),
              <<>>, scratch, NoPar, FALSE)
    ELSE LET Bucket == SecondOf(Split(resourceId, "::"))
         IN  Turn(sendCloudFormationResponse(sent, SUCCESS, OK, Undefined),
                  <<Request("listObjects", Bucket, Undefined, 0)>>, scratch, NoPar, FALSE)

\* cleanBucket up to its return: the guard on the id, the listObjects request,
\* the response sent without waiting for it
cleanBucket(resourceId, sent) ==
    IF Falsy(resourceId)
    THEN Turn(sendCloudFormationResponse(sent, FAILED,
                  Message(<<"Invalid physical resource id: ">> \o resourceId), Undefined),
              <<>>, scratch, NoPar, FALSE)
    ELSE LET Bucket == SecondOf(Split(resourceId, "::"))
         IN  Turn(sendCloudFormationResponse(sent, SUCCESS, OK, resourceId),
                  <<Request("listObjects", Bucket, Undefined, 0)>>, scratch, NoPar, FALSE)

\* a listObjects callback that gives up after the first key
listObjectsCallback_FirstOnly(req, err, Contents, sent) ==
    IF err
    THEN Turn(sendCloudFormationResponse(sent, FAILED,
                  Message(<<"Could not list bucket objects: ", "Error">>), Undefined),
              <<>>, scratch, par, FALSE)
    ELSE Turn(sent,
              [i \in 1..(IF Len(Contents) > 0 THEN 1 ELSE 0) |->
                  Request("deleteObject", req.Bucket, Contents[i], i)],
              scratch, par, FALSE)

\* the callback of s3.listObjects
listObjectsCallback(req, err, Contents, sent) ==
    IF err
    THEN Turn(sendCloudFormationResponse(sent, FAILED,
                  Message(<<"Could not list bucket objects: ", "Error">>), Undefined),
              <<>>, scratch, par, FALSE)
    ELSE Turn(sent,
              [i \in 1..Len(Contents) |-> Request("deleteObject", req.Bucket, Contents[i], i)],
              scratch, par, FALSE)

\* the callback of s3.deleteObject
deleteObjectCallback(req, err, sent) ==
    IF err
    THEN Turn(sendCloudFormationResponse(sent, FAILED,
                  Message(<<"Could not delete object: ">> \o req.Key), Undefined),
              <<>>, scratch, par, FALSE)
    ELSE Turn(sent, <<>>, scratch, par, FALSE)

----------------------------------------------------------------------------
(* uploadArtifacts.                                                        *)

\* the guard with the test of DestinationBucket left out
MissingOptions_NoDestination(resourceOptions) ==
    \/ resourceOptions = {}
    \/ \E o \in resourceOptions :
          \/ Falsy(o.SourceBucket)
          \/ Falsy(o.SourceArtifact)

\* the guard on the options of a Create or Update
MissingOptions(resourceOptions) ==
    \/ resourceOptions = {}
    \/ \E o \in resourceOptions :
          \/ Falsy(o.SourceBucket)
          \/ Falsy(o.SourceArtifact)
          \/ Falsy(o.DestinationBucket)

destinationBucket(ev) == (CHOOSE o \in ev.Options : TRUE).DestinationBucket
sourceBucket(ev) == (CHOOSE o \in ev.Options : TRUE).SourceBucket
sourceArtifact(ev) == (CHOOSE o \in ev.Options : TRUE).SourceArtifact

\* `Deployment::${destinationBucket}`
\* an id that an Update takes from the event instead of the options
physicalResourceId_FromEvent(ev) ==
    IF ev.RequestType = UPDATE THEN ev.PhysicalResourceId
    ELSE <<"Deployment", "::">> \o destinationBucket(ev)

physicalResourceId(ev) == <<"Deployment", "::">> \o destinationBucket(ev)

\* an uploadArtifacts that also empties the destination bucket before it deploys
uploadArtifacts_CleanFirst(ev, sent) ==
    IF MissingOptions(ev.Options)
    THEN Turn(sendCloudFormationResponse(sent, FAILED,
                  Message(<<"Missing required options: SourceBucket, SourceArtifact, DestinationBucket">>),
                  Undefined),
              <<>>, scratch, NoPar, FALSE)
    ELSE Turn(sent, <<Request("listObjects", destinationBucket(ev), Undefined, 0),
                      Request("getObject", sourceBucket(ev), sourceArtifact(ev), 0)>>,
              scratch, NoPar, FALSE)

\* uploadArtifacts up to its return: the guard on the options, the getObject request
uploadArtifacts(ev, sent) ==
    IF MissingOptions(ev.Options)
    THEN Turn(sendCloudFormationResponse(sent, FAILED,
                  Message(<<"Missing required options: SourceBucket, SourceArtifact, DestinationBucket">>),
                  Undefined),
              <<>>, scratch, NoPar, FALSE)
    ELSE Turn(sent, <<Request("getObject", sourceBucket(ev), sourceArtifact(ev), 0)>>,
              scratch, NoPar, FALSE)

\* the test on the base name of the entry instead of its whole name
IsPackageEntry_BaseName(zipEntry) ==
    zipEntry.entryName \in {<<"package.zip">>, <<"build/package.zip">>}

\* zipEntry.entryName === 'package.zip'
IsPackageEntry(zipEntry) == zipEntry.entryName = <<"package.zip">>

RECURSIVE ScanEntries(_, _, _)
\* zipEntries.forEach of the outer artifact: acc is packageFound, /tmp/package.zip
\* and the responses sent; a failed extraction sends FAILED and returns from the
\* arrow function only, so the loop and the code after it go on
ScanEntries(zipEntries, extractOk, acc) ==
    IF zipEntries = <<>> THEN acc
    ELSE LET zipEntry == Head(zipEntries)
             next == IF ~IsPackageEntry(zipEntry) THEN acc
                     ELSE IF extractOk
                     THEN [acc EXCEPT !.packageFound = TRUE, !.package = zipEntry.content]
                     ELSE [acc EXCEPT !.packageFound = TRUE,
                                      !.sent = sendCloudFormationResponse(acc.sent, FAILED,
                                          Message(<<"Could not save package to disk: ", "Error">>),
                                          Undefined)]
         IN  ScanEntries(Tail(zipEntries), extractOk, next)

\* one task for every entry, directories included
asyncTasks_WithDirectories(packageEntries) == packageEntries

\* packageEntries.forEach: one task for every entry that is not a directory
asyncTasks(packageEntries) == SelectSeq(packageEntries, LAMBDA entry : ~entry.isDirectory)

\* the non-error branch of async.parallel's callback: invalidate when a
\* distribution is configured, answer SUCCESS otherwise
uploadsDone(ev, sent) ==
    IF distributionId
    THEN [sent |-> sent, reqs |-> <<Request("createInvalidation", Undefined, Undefined, 0)>>]
    ELSE [sent |-> sendCloudFormationResponse(sent, SUCCESS, OK, physicalResourceId(ev)),
          reqs |-> <<>>]

\* what the first ran tasks do, in order: task i extracts its entry to /tmp/dist
\* (packageZip.extractEntryTo), reads it back and issues putObject; when the next
\* task throws, its extractEntryTo is the last step
taskSteps(ev, tasks, ran, throws) ==
    [j \in 1..(2 * ran + (IF throws THEN 1 ELSE 0)) |->
        LET i == (j + 1) \div 2
        IN  IF j % 2 = 1 THEN Request("extractEntryTo", Undefined, tasks[i].entryName, i)
            ELSE Request("putObject", destinationBucket(ev), tasks[i].entryName, i)]

\* async.parallel(asyncTasks, ...) up to its return. The tasks run one after the
\* other in this turn: each extracts its entry to /tmp/dist, reads it back and
\* issues putObject. throwAt is the task whose extraction or read throws (0: none);
\* an empty task list calls the final callback at once.
parallel(ev, tasks, throwAt, files, sent) ==
    LET throws == throwAt \in 1..Len(tasks)
        ran == IF throws THEN throwAt - 1 ELSE Len(tasks)
        extracted == {tasks[i].entryName : i \in 1..ran}
        files2 == [files EXCEPT !.dist = extracted]
        puts == taskSteps(ev, tasks, ran, throws)
        p == [n |-> Len(tasks), results |-> [i \in 1..Len(tasks) |-> Hole],
              completed |-> 0, done |-> FALSE]
    IN  IF throws THEN Turn(sent, puts, files2, p, TRUE)
        ELSE IF tasks = <<>>
        THEN LET d == uploadsDone(ev, sent)
             IN  Turn(d.sent, d.reqs, files2, [p EXCEPT !.done = TRUE], FALSE)
        ELSE Turn(sent, puts, files2, p, FALSE)

\* the callback of s3.getObject. err: the fetch failed; Body: the bytes fetched;
\* writeOk: writeFileSync succeeded; extractOk: extracting package.zip succeeded;
\* throwAt: the publish task that throws, if any
getObjectCallback(ev, err, Body, writeOk, extractOk, throwAt, sent) ==
    IF err
    THEN Turn(sendCloudFormationResponse(sent, FAILED,
                  Message(<<"Could not fetch artifact: ">> \o sourceBucket(ev) \o <<"/">>
                          \o sourceArtifact(ev) \o <<": ", "Error">>), Undefined),
              <<>>, scratch, par, FALSE)
    ELSE IF ~writeOk
    THEN Turn(sendCloudFormationResponse(sent, FAILED,
                  Message(<<"Could not save artifact to disk: ", "Error">>), Undefined),
              <<>>, scratch, par, FALSE)
    ELSE LET files1 == [scratch EXCEPT !.artifact = Body]
         IN  \* new AdmZip(tmpSourceArtifact) throws on a file that is no archive
             IF files1.artifact.kind # "zip" THEN Turn(sent, <<>>, files1, par, TRUE)
             ELSE LET scan == ScanEntries(files1.artifact.entries, extractOk,
                                  [packageFound |-> FALSE, package |-> files1.package,
                                   sent |-> sent])
                      files2 == [files1 EXCEPT !.package = scan.package]
                  IN  IF ~scan.packageFound
                      THEN Turn(sendCloudFormationResponse(scan.sent, FAILED,
                                    Message(<<"Could not package.zip in artifact">>), Undefined),
                                <<>>, files2, par, FALSE)
                      ELSE \* deleteFolderRecursive(deploymentDir); fs.mkdirSync(deploymentDir)
                           LET files3 == [files2 EXCEPT !.distExists = TRUE, !.dist = {}]
                           IN  \* new AdmZip(tmpPackageZip) throws on a missing file and
                               \* on one that is no archive
                               IF files3.package.kind # "zip"
                               THEN Turn(scan.sent, <<>>, files3, par, TRUE)
                               ELSE parallel(ev, asyncTasks(files3.package.entries),
                                             throwAt, files3, scan.sent)

\* a task that hands its callback the error alone
TaskResult_NoName(err, entryName) == Undefined

\* the arguments a publish task hands to its callback: (_err, entry.entryName) on
\* failure, (null, _data.Key) on success; putObject's data holds no Key
TaskResult(err, entryName) == IF err THEN entryName ELSE Undefined

\* the callback of s3.putObject, and async.parallel's bookkeeping for the task:
\* results[idx] is set, the first error calls the final callback with the results
\* so far, the last success calls it without error; it is called once at most
putObjectCallback(ev, req, err, sent) ==
    LET results == [par.results EXCEPT ![req.idx] = TaskResult(err, req.Key)]
        p == [par EXCEPT !.results = results]
    IN  IF par.done THEN Turn(sent, <<>>, scratch, p, FALSE)
        ELSE IF err
        THEN Turn(sendCloudFormationResponse(sent, FAILED,
                      Message(<<"Error while uploading ">> \o ArrayToString(results)
                              \o <<" to destination bucket: ", "null">>), Undefined),
                  <<>>, scratch, [p EXCEPT !.done = TRUE], FALSE)
        ELSE IF par.completed + 1 = par.n
        THEN LET d == uploadsDone(ev, sent)
             IN  Turn(d.sent, d.reqs, scratch,
                      [p EXCEPT !.completed = par.completed + 1, !.done = TRUE], FALSE)
        ELSE Turn(sent, <<>>, scratch, [p EXCEPT !.completed = par.completed + 1], FALSE)

\* the callback of cloudfront.createInvalidation: the error branch does not return
createInvalidationCallback(ev, err, sent) ==
    LET sent1 == IF err
                 THEN sendCloudFormationResponse(sent, FAILED,
                          Message(<<"Error while uploading ">> \o ArrayToString(par.results)
                                  \o <<" to destination bucket: ", "Error">>), Undefined)
                 ELSE sent
    IN  Turn(sendCloudFormationResponse(sent1, SUCCESS, OK, physicalResourceId(ev)),
             <<>>, scratch, par, FALSE)

----------------------------------------------------------------------------
(* exports.handler.                                                        *)

\* the test of LogicalResourceId reduced to its presence
ValidLogicalResourceId_AnyId(ev) == ev.LogicalResourceId # ""

ValidLogicalResourceId(ev) == ev.LogicalResourceId = ExpectedLogicalResourceId

\* a handler whose Update empties the destination bucket while it deploys
handler_UpdateReplaces(ev) ==
    IF ~ValidLogicalResourceId(ev)
    THEN Turn(sendCloudFormationResponse(<<>>, FAILED,
                  Message(<<"Invalid LogicalResourceId: ", ev.LogicalResourceId>>), Undefined),
              <<>>, scratch, NoPar, FALSE)
    ELSE IF ev.RequestType = UPDATE /\ ~MissingOptions(ev.Options)
    THEN Turn(<<>>, <<Request("listObjects", destinationBucket(ev), Undefined, 0),
                      Request("getObject", sourceBucket(ev), sourceArtifact(ev), 0)>>,
              scratch, NoPar, FALSE)
    ELSE IF ev.RequestType \in {CREATE, UPDATE} THEN uploadArtifacts(ev, <<>>)
    ELSE IF ev.RequestType = DELETE THEN cleanBucket(ev.PhysicalResourceId, <<>>)
    ELSE Turn(sendCloudFormationResponse(<<>>, FAILED,
                  Message(<<"Invalid request type ", ev.RequestType>>), Undefined),
              <<>>, scratch, NoPar, FALSE)

\* the synchronous body of exports.handler
handler(ev) ==
    IF ~ValidLogicalResourceId(ev)
    THEN Turn(sendCloudFormationResponse(<<>>, FAILED,
                  Message(<<"Invalid LogicalResourceId: ", ev.LogicalResourceId>>), Undefined),
              <<>>, scratch, NoPar, FALSE)
    ELSE IF ev.RequestType \in {CREATE, UPDATE} THEN uploadArtifacts(ev, <<>>)
    ELSE IF ev.RequestType = DELETE THEN cleanBucket(ev.PhysicalResourceId, <<>>)
    ELSE Turn(sendCloudFormationResponse(<<>>, FAILED,
                  Message(<<"Invalid request type ", ev.RequestType>>), Undefined),
              <<>>, scratch, NoPar, FALSE)

\* a promise chain that always reports no error to the invocation's callback
completion_NoError(response, ok) ==
    [error |-> "null", data |-> IF ok THEN response.Data.message ELSE Undefined]

\* the promise chain of sendCloudFormationResponse: what the invocation's callback
\* is called with once the PUT has answered (ok) or failed at the network level
completion(response, ok) ==
    IF ~ok THEN [error |-> "http request error", data |-> Undefined]
    ELSE [error |-> IF response.Status = FAILED THEN FAILED ELSE "null",
          data |-> response.Data.message]

----------------------------------------------------------------------------
(* The state machine.                                                      *)

\* no Update has just succeeded
NoLast == [Options |-> {}, Body |-> NoFile, PhysicalResourceId |-> Undefined,
           bucket |-> [b \in BucketNames |-> {}]]

\* nothing has been invoked yet
NoHistory == [created |-> {}, last |-> NoLast]

NoEvent == [LogicalResourceId |-> "none", RequestType |-> "none", Options |-> {},
            PhysicalResourceId |-> Undefined]

Init ==
    /\ pc = "idle"
    /\ event = NoEvent
    /\ pending = {}
    /\ par = NoPar
    /\ responses = <<>>
    /\ calls = <<>>
    /\ completions = <<>>
    /\ delivered = {}
    /\ bucket = [b \in BucketNames |-> {}]
    /\ scratch = EmptyScratch
    /\ distributionId \in BOOLEAN
    /\ history = NoHistory

\* the outcome a collaborator handed to the callback of req
Delivery(req, err, data) == [req |-> req, err |-> err, data |-> data]

\* the effect of one turn, the callback of req called with (err, data): an escaped
\* exception ends the process, and with it every request still waiting for its callback
Apply(t, req, err, data) ==
    /\ delivered' = delivered \cup {Delivery(req, err, data)}
    /\ responses' = t.sent
    /\ scratch' = t.scratch
    /\ par' = t.par
    /\ calls' = calls \o t.reqs
    /\ IF t.threw
       THEN pc' = "crashed" /\ pending' = {}
       ELSE /\ pc' = "running"
            /\ pending' = (pending \ {req}) \cup Waiting(t.reqs) \cup HttpsPuts(responses, t.sent)

\* Lambda calls exports.handler with an event, in a fresh execution environment
\* or in the one the previous invocation left
Invoke ==
    /\ pc = "idle"
    /\ \E ev \in Events, fresh \in BOOLEAN :
          LET t == handler(ev)
          IN  /\ event' = ev
              /\ pc' = "running"
              /\ responses' = t.sent
              /\ calls' = t.reqs
              /\ pending' = Waiting(t.reqs) \cup HttpsPuts(<<>>, t.sent)
              /\ par' = NoPar
              /\ completions' = <<>>
              /\ delivered' = {}
              /\ scratch' = IF fresh THEN EmptyScratch ELSE scratch
    /\ UNCHANGED <<bucket, distributionId, history>>

GetObjectCallback ==
    \E req \in pending :
       /\ req.op = "getObject"
       /\ \E err \in BOOLEAN, Body \in ArtifactBodies, writeOk \in BOOLEAN,
             extractOk \in BOOLEAN, throwAt \in 0..MaxFiles :
             LET t == getObjectCallback(event, err, Body, writeOk, extractOk, throwAt,
                                        responses)
             IN  \* a task that does not exist cannot throw
                 /\ throwAt <= t.par.n
                 /\ Apply(t, req, err, IF err THEN NoFile ELSE Body)
       /\ UNCHANGED <<event, completions, bucket, distributionId, history>>

PutObjectCallback ==
    \E req \in pending :
       /\ req.op = "putObject"
       /\ \E err \in BOOLEAN :
             /\ Apply(putObjectCallback(event, req, err, responses), req, err, NoFile)
             /\ bucket' = IF err THEN bucket
                          ELSE [bucket EXCEPT ![req.Bucket] = @ \cup {req.Key}]
       /\ UNCHANGED <<event, completions, distributionId, history>>

CreateInvalidationCallback ==
    \E req \in pending :
       /\ req.op = "createInvalidation"
       /\ \E err \in BOOLEAN : Apply(createInvalidationCallback(event, err, responses), req, err,
                                   NoFile)
       /\ UNCHANGED <<event, completions, bucket, distributionId, history>>

ListObjectsCallback ==
    \E req \in pending :
       /\ req.op = "listObjects"
       /\ \E err \in BOOLEAN :
             \* listing a bucket that does not exist, or no bucket at all, fails
             /\ req.Bucket \notin BucketNames => err
             /\ LET Contents == IF req.Bucket \in BucketNames
                                 THEN SetToSeq(bucket[req.Bucket]) ELSE <<>>
                IN  Apply(listObjectsCallback(req, err, Contents, responses), req, err,
                          IF err THEN NoFile ELSE Listing(Contents))
       /\ UNCHANGED <<event, completions, bucket, distributionId, history>>

DeleteObjectCallback ==
    \E req \in pending :
       /\ req.op = "deleteObject"
       /\ \E err \in BOOLEAN :
             /\ Apply(deleteObjectCallback(req, err, responses), req, err, NoFile)
             /\ bucket' = IF err THEN bucket
                          ELSE [bucket EXCEPT ![req.Bucket] = @ \ {req.Key}]
       /\ UNCHANGED <<event, completions, distributionId, history>>

\* the PUT to the ResponseURL answers or fails: the invocation's callback is called
HttpsPutCallback ==
    \E req \in pending :
       /\ req.op = "httpsPut"
       /\ \E ok \in BOOLEAN :
             completions' = Append(completions,
                                   [put |-> req.idx, ok |-> ok,
                                    args |-> completion(responses[req.idx], ok)])
       /\ pending' = pending \ {req}
       /\ UNCHANGED <<pc, event, par, responses, calls, delivered, bucket, scratch,
                   distributionId, history>>

\* the invocation is over: its event loop is empty, or an exception ended the
\* process; the bucket and (in a reused environment) /tmp outlive it
InvocationEnds ==
    /\ pc \in {"running", "crashed"}
    /\ pending = {}
    /\ pc' = "idle"
    /\ event' = NoEvent
    /\ par' = NoPar
    /\ responses' = <<>>
    /\ calls' = <<>>
    /\ completions' = <<>>
    /\ delivered' = {}
    /\ UNCHANGED <<pending, bucket, scratch, distributionId, history>>

Next ==
    \/ Invoke
    \/ InvocationEnds
    \/ GetObjectCallback
    \/ PutObjectCallback
    \/ CreateInvalidationCallback
    \/ ListObjectsCallback
    \/ DeleteObjectCallback
    \/ HttpsPutCallback

Spec == Init /\ [][Next]_vars


----------------------------------------------------------------------------
(* What the properties speak about.                                        *)

\* an invocation is under way or has just ended
Invoked == pc \in {"running", "crashed"}

\* nothing of the invocation is left to run
InvocationOver == Invoked /\ pending = {}

Statuses == {responses[i].Status : i \in 1..Len(responses)}

\* the operations of the collaborator calls issued so far
CalledOps == {calls[i].op : i \in 1..Len(calls)}

StoreOps == {"getObject", "putObject", "listObjects", "deleteObject"}

\* the requests of one operation whose callback got an error, or got none
FailedRequests(op) == {d.req : d \in {x \in delivered : x.req.op = op /\ x.err}}
SucceededRequests(op) == {d.req : d \in {x \in delivered : x.req.op = op /\ ~x.err}}

\* the outcome signaled is FAILED and nothing else was signaled
OnlyFailedSignaled == Len(responses) = 1 /\ responses[1].Status = FAILED

\* the archives getObject delivered to this invocation
FetchedArchives ==
    {d.data : d \in {x \in delivered : x.req.op = "getObject" /\ ~x.err /\ x.data.kind = "zip"}}

EntryNames(archive) == {archive.entries[i].entryName : i \in 1..Len(archive.entries)}

\* a physical resource id without the "::" separator, or none at all
MalformedOrAbsent(id) == id = Undefined \/ "::" \notin Range(id)

\* the options of the event lack one of the three required ones
LacksRequiredOption(ev) ==
    \/ ev.Options = {}
    \/ \E o \in ev.Options :
          Undefined \in {o.SourceBucket, o.SourceArtifact, o.DestinationBucket}

\* sendCloudFormationResponse was called with this message head
Signaled(head) == \E i \in 1..Len(responses) : Head(responses[i].Data.message) = head

IsDeploy == Invoked /\ event.RequestType \in {CREATE, UPDATE}

\* the DestinationBucket option of the event
Destination == (CHOOSE o \in event.Options : TRUE).DestinationBucket

\* the package.zip entries of the archives fetched by this invocation
FetchedPackages ==
    UNION {{a.entries[i].content :
               i \in {j \in 1..Len(a.entries) :
                         /\ a.entries[j].entryName = <<"package.zip">>
                         /\ a.entries[j].content.kind = "zip"}} : a \in FetchedArchives}

\* the names of the entries of a package that are not directories
FileKeys(package) ==
    {package.entries[i].entryName :
        i \in {j \in 1..Len(package.entries) : ~package.entries[j].isDirectory}}

\* the putObject calls issued so far
PutCalls == {calls[i] : i \in {j \in 1..Len(calls) : calls[j].op = "putObject"}}
PutKeys == {r.Key : r \in PutCalls}

\* the putObject requests still waiting for their callback
PutsInFlight == {r \in pending : r.op = "putObject"}

\* nothing failed so far: no collaborator answered with an error, writeFileSync and
\* the extraction of package.zip succeeded, no exception escaped
NothingFailed ==
    /\ pc # "crashed"
    /\ \A d \in delivered : ~d.err
    /\ ~Signaled("Could not save artifact to disk: ")
    /\ ~Signaled("Could not save package to disk: ")

\* the invocation is an Update that has signaled SUCCESS and nothing else
SuccessfulUpdate ==
    /\ Invoked
    /\ event.RequestType = UPDATE
    /\ FetchedArchives # {}
    /\ Statuses = {SUCCESS}

\* the PhysicalResourceIds of the SUCCESS responses
SuccessIds ==
    {responses[i].PhysicalResourceId :
        i \in {j \in 1..Len(responses) : responses[j].Status = SUCCESS}}

\* the invocation is a Create for bucket B and answered SUCCESS with 'Deployment::B'
CreatedNow ==
    IF Invoked /\ event.RequestType = CREATE /\ event.Options # {}
    THEN {B \in BucketNames : B = Destination /\ <<"Deployment", "::">> \o B \in SuccessIds}
    ELSE {}

----------------------------------------------------------------------------
(* The state machine with a memory of the earlier invocations: when an     *)
(* invocation ends, history keeps the buckets a Create has been answered   *)
(* for, and what an Update that has just succeeded fetched and left.       *)

InvocationEndsRecorded ==
    /\ pc \in {"running", "crashed"}
    /\ pending = {}
    /\ pc' = "idle"
    /\ event' = NoEvent
    /\ par' = NoPar
    /\ responses' = <<>>
    /\ calls' = <<>>
    /\ completions' = <<>>
    /\ delivered' = {}
    /\ history' = [created |-> history.created \cup CreatedNow,
                   last |-> IF SuccessfulUpdate
                            THEN [Options |-> event.Options,
                                  Body |-> CHOOSE a \in FetchedArchives : TRUE,
                                  PhysicalResourceId |-> CHOOSE id \in SuccessIds : TRUE,
                                  bucket |-> bucket]
                            ELSE NoLast]
    /\ UNCHANGED <<pending, bucket, scratch, distributionId>>

NextHistory ==
    \/ Invoke
    \/ InvocationEndsRecorded
    \/ GetObjectCallback
    \/ PutObjectCallback
    \/ CreateInvalidationCallback
    \/ ListObjectsCallback
    \/ DeleteObjectCallback
    \/ HttpsPutCallback

SpecHistory == Init /\ [][NextHistory]_vars

----------------------------------------------------------------------------
(* The properties.                                                         *)

\* C1: an invocation calls sendCloudFormationResponse (one callback PUT) at most
\* once, whatever the request and whatever the collaborators answer.
C1_AtMostOneResponse == Len(responses) <= 1

\* C2: every invocation sends a callback PUT: once every collaborator call of the
\* invocation has completed and nothing is left to run, sendCloudFormationResponse
\* has been called, also when an archive is malformed or an entry cannot be read.
C2_EveryInvocationResponds == InvocationOver => Len(responses) >= 1

\* C3: when createInvalidation fails (every upload having succeeded), FAILED is
\* signaled and SUCCESS is not, and the uploaded objects stay in the bucket.
C3_InvalidationFailureIsFailed ==
    FailedRequests("createInvalidation") # {} =>
        /\ Statuses = {FAILED}
        /\ \A r \in SucceededRequests("putObject") : r.Key \in bucket[r.Bucket]

\* C4: a Delete whose PhysicalResourceId is absent or has no "::" separator is
\* answered FAILED and issues no listObjects and no deleteObject.
C4_MalformedDeleteFails ==
    (/\ Invoked
     /\ event.LogicalResourceId = ExpectedLogicalResourceId
     /\ event.RequestType = DELETE
     /\ MalformedOrAbsent(event.PhysicalResourceId)) =>
        /\ OnlyFailedSignaled
        /\ CalledOps \cap {"listObjects", "deleteObject"} = {}

\* C5: when listObjects fails on a Delete, FAILED is signaled, SUCCESS is not, and
\* no deleteObject is issued.
C5_ListFailureIsFailed ==
    FailedRequests("listObjects") # {} =>
        /\ Statuses = {FAILED}
        /\ "deleteObject" \notin CalledOps

\* C6: a request whose LogicalResourceId is not 'WebsiteDeployment' is answered
\* FAILED, whatever its RequestType and options, and no object-store or
\* cache-invalidation call is made.
C6_InvalidLogicalIdFails ==
    (Invoked /\ event.LogicalResourceId # ExpectedLogicalResourceId) =>
        /\ OnlyFailedSignaled
        /\ calls = <<>>

C6_Witness ==
    /\ Invoked
    /\ event.LogicalResourceId # ExpectedLogicalResourceId
    /\ event.RequestType = CREATE
    /\ event.Options = {FullOptions(<<"b1">>)}
    /\ OnlyFailedSignaled
    /\ pending = {}

\* C7: a Create or Update with the expected LogicalResourceId whose options lack
\* SourceBucket, SourceArtifact or DestinationBucket is answered FAILED and makes no
\* object-store call.
C7_MissingOptionsFail ==
    (/\ Invoked
     /\ event.LogicalResourceId = ExpectedLogicalResourceId
     /\ event.RequestType \in {CREATE, UPDATE}
     /\ LacksRequiredOption(event)) =>
        /\ OnlyFailedSignaled
        /\ CalledOps \cap StoreOps = {}

C7_Witness ==
    /\ Invoked
    /\ event.LogicalResourceId = ExpectedLogicalResourceId
    /\ event.RequestType = UPDATE
    /\ \E o \in event.Options :
          /\ o.SourceBucket # Undefined
          /\ o.SourceArtifact # Undefined
          /\ o.DestinationBucket = Undefined
    /\ OnlyFailedSignaled
    /\ pending = {}

\* C8: when the archive fetched holds no entry named exactly 'package.zip', the
\* outcome is FAILED, no putObject is issued and no invalidation is submitted.
C8_NoPackageFails ==
    (\E a \in FetchedArchives : <<"package.zip">> \notin EntryNames(a)) =>
        /\ OnlyFailedSignaled
        /\ CalledOps \cap {"putObject", "createInvalidation"} = {}

C8_Witness ==
    /\ \E a \in FetchedArchives :
          /\ <<"package.zip">> \notin EntryNames(a)
          /\ <<"build/package.zip">> \in EntryNames(a)
    /\ scratch.artifact \in FetchedArchives
    /\ Signaled("Could not package.zip in artifact")
    /\ pending = {}

\* C9: when extracting package.zip from the artifact fails, FAILED is signaled and
\* the pipeline stops: the inner archive is not opened, no putObject is issued and
\* no further response is sent.
C9_ExtractionFailureStops ==
    Signaled("Could not save package to disk: ") =>
        /\ OnlyFailedSignaled
        /\ pc # "crashed"
        /\ par = NoPar
        /\ "putObject" \notin CalledOps

\* C10: when an upload fails, FAILED is signaled and never SUCCESS, the message
\* names an entry whose upload failed, no invalidation is submitted, and the objects
\* already uploaded stay in the destination bucket.
C10_UploadFailureIsFailed ==
    FailedRequests("putObject") # {} =>
        /\ Statuses = {FAILED}
        /\ \E i \in 1..Len(responses), r \in FailedRequests("putObject") :
              r.Key[1] \in Range(responses[i].Data.message)
        /\ "createInvalidation" \notin CalledOps
        /\ \A r \in SucceededRequests("putObject") : r.Key \in bucket[r.Bucket]

C10_Witness ==
    /\ FailedRequests("putObject") # {}
    /\ SucceededRequests("putObject") # {}
    /\ \E r \in SucceededRequests("putObject") : r.idx = 1
    /\ Statuses = {FAILED}
    /\ pending = {}

\* C11: a Create or Update whose artifact holds package.zip and for which everything
\* succeeds puts exactly the non-directory entries of package.zip, each once and
\* under its entry name, into the destination bucket, and answers SUCCESS once, with
\* PhysicalResourceId 'Deployment::<DestinationBucket>', after every upload completed.
C11_PublishesPackageFiles ==
    \A package \in FetchedPackages :
        (IsDeploy /\ NothingFailed) =>
            /\ PutKeys = FileKeys(package)
            /\ Cardinality(PutCalls) = Cardinality(FileKeys(package))
            /\ \A r \in PutCalls : r.Bucket = Destination
            /\ Len(responses) <= 1
            /\ \A i \in 1..Len(responses) :
                  /\ responses[i].Status = SUCCESS
                  /\ responses[i].PhysicalResourceId = <<"Deployment", "::">> \o Destination
                  /\ PutsInFlight = {}
                  /\ SucceededRequests("putObject") = PutCalls
                  /\ FileKeys(package) \subseteq bucket[Destination]
            /\ InvocationOver => Len(responses) = 1

C11_Witness ==
    /\ IsDeploy
    /\ NothingFailed
    /\ InvocationOver
    /\ \E package \in FetchedPackages :
          /\ Len(package.entries) = MaxFiles + 1
          /\ bucket[Destination] = FileKeys(package)
    /\ Statuses = {SUCCESS}
    /\ distributionId

\* the Update repeats the one that has just succeeded: the same options, and an
\* artifact of the same content
RepeatsLastUpdate ==
    /\ SuccessfulUpdate
    /\ history.last # NoLast
    /\ event.Options = history.last.Options
    /\ FetchedArchives = {history.last.Body}

\* C12: a successful Update run twice in a row with identical options and an
\* artifact of unchanged content signals the same PhysicalResourceId both times,
\* and the buckets hold after the second run what they held after the first.
C12_UpdateIsIdempotent ==
    RepeatsLastUpdate =>
        /\ SuccessIds = {history.last.PhysicalResourceId}
        /\ bucket = history.last.bucket

C12_Witness ==
    /\ RepeatsLastUpdate
    /\ InvocationOver
    /\ \E package \in FetchedPackages :
          FileKeys(package) # {} /\ bucket[Destination] = FileKeys(package)

\* the invocation is an Update for a destination bucket B for which an earlier
\* Create has been answered SUCCESS with 'Deployment::B'
UpdateAfterCreate ==
    /\ Invoked
    /\ event.RequestType = UPDATE
    /\ event.Options # {}
    /\ Destination \in history.created

\* C13 as stated: once a Create for destination bucket B has been answered with
\* 'Deployment::B', every response to a later Update for B carries that
\* PhysicalResourceId.
C13_EveryUpdateResponseKeepsId ==
    UpdateAfterCreate =>
        \A i \in 1..Len(responses) :
            responses[i].PhysicalResourceId = <<"Deployment", "::">> \o Destination

\* C13, amended: once a Create for destination bucket B has been answered with
\* 'Deployment::B', every SUCCESS response to a later Update for B carries that
\* PhysicalResourceId; a FAILED response carries the log stream name instead.
C13_SuccessfulUpdateKeepsId ==
    UpdateAfterCreate =>
        \A i \in 1..Len(responses) :
            /\ responses[i].Status = SUCCESS =>
                   responses[i].PhysicalResourceId = <<"Deployment", "::">> \o Destination
            /\ responses[i].Status = FAILED =>
                   responses[i].PhysicalResourceId = logStreamName

C13_Witness ==
    /\ UpdateAfterCreate
    /\ InvocationOver
    /\ Statuses = {SUCCESS}
    /\ SuccessIds = {<<"Deployment", "::">> \o Destination}

\* the invocation is a Delete that reaches cleanBucket with an id that holds '::'
WellFormedDelete ==
    /\ Invoked
    /\ event.RequestType = DELETE
    /\ ValidLogicalResourceId(event)
    /\ event.PhysicalResourceId # Undefined
    /\ "::" \in Range(event.PhysicalResourceId)

\* C14: a Delete with a well-formed PhysicalResourceId is answered at once with
\* SUCCESS carrying the request's PhysicalResourceId, whatever the listing and
\* the deletions do afterwards.
C14_DeleteAnswersSuccessAtOnce ==
    WellFormedDelete =>
        /\ Len(responses) >= 1
        /\ responses[1].Status = SUCCESS
        /\ responses[1].PhysicalResourceId = event.PhysicalResourceId
        /\ responses[1].Data = OK

C14_Witness ==
    /\ WellFormedDelete
    /\ InvocationOver
    /\ FailedRequests("deleteObject") # {}
    /\ SucceededRequests("deleteObject") # {}
    /\ responses[1].Status = SUCCESS
    /\ responses[1].PhysicalResourceId = <<"Deployment", "::", "b1">>

\* the listings that came back without an error
Listings == {d \in delivered : d.req.op = "listObjects" /\ ~d.err}

\* the deleteObject calls issued so far
DeleteCalls == {calls[i] : i \in {j \in 1..Len(calls) : calls[j].op = "deleteObject"}}

\* C15: on a Delete whose listing succeeds there is exactly one deleteObject call
\* for every key the listing returned, in the listed bucket, and each of them is
\* answered or still awaited whatever the others did.
C15_DeletesEveryListedKey ==
    (Invoked /\ event.RequestType = DELETE) =>
        /\ Listings = {} => DeleteCalls = {}
        /\ \A l \in Listings :
              /\ {r.Key : r \in DeleteCalls} = Range(l.data.entries)
              /\ Cardinality(DeleteCalls) = Len(l.data.entries)
              /\ \A r \in DeleteCalls : r.Bucket = l.req.Bucket
              /\ \A r \in DeleteCalls :
                    \/ r \in pending
                    \/ r \in FailedRequests("deleteObject") \cup SucceededRequests("deleteObject")

C15_Witness ==
    /\ Invoked /\ event.RequestType = DELETE
    /\ InvocationOver
    /\ \E l \in Listings : Len(l.data.entries) = MaxFiles
    /\ Cardinality(DeleteCalls) = MaxFiles
    /\ FailedRequests("deleteObject") # {}
    /\ SucceededRequests("deleteObject") # {}

\* the indices of the responses whose PUT is still awaited
PutsAwaited == {r.idx : r \in {q \in pending : q.op = "httpsPut"}}

\* the indices of the responses whose PUT has answered or failed
PutsCompleted == {completions[i].put : i \in 1..Len(completions)}

\* C16: the invocation's callback is called once for every PUT that has completed
\* and for no other; with an error when the PUT failed at the network level, and
\* when it answered with an error exactly when the status signaled is FAILED.
C16_CompletionReflectsSignal ==
    /\ PutsCompleted \subseteq 1..Len(responses)
    /\ PutsCompleted \cap PutsAwaited = {}
    /\ Cardinality(PutsCompleted) = Len(completions)
    /\ pc = "running" => PutsCompleted \cup PutsAwaited = 1..Len(responses)
    /\ \A i \in 1..Len(completions) :
          LET c == completions[i]
          IN  /\ ~c.ok => c.args.error # "null"
              /\ c.ok => (c.args.error # "null" <=> responses[c.put].Status = FAILED)
              /\ c.ok => c.args.data = responses[c.put].Data.message

C16_Witness ==
    /\ InvocationOver
    /\ \E i, j, k \in 1..Len(completions) :
          /\ ~completions[i].ok /\ completions[i].args.error # "null"
          /\ completions[j].ok /\ responses[completions[j].put].Status = FAILED
          /\ completions[j].args.error = FAILED
          /\ completions[k].ok /\ responses[completions[k].put].Status = SUCCESS
          /\ completions[k].args.error = "null"

CallsOf(op) == {i \in 1..Len(calls) : calls[i].op = op}

\* the requests of one operation that still wait for their callback
InFlight(op) == {r \in pending : r.op = op}

\* C18: the stages of a Create/Update follow one another: no putObject is
\* dispatched before the last entry has been extracted, createInvalidation is
\* not submitted while a putObject is in flight, and SUCCESS is not signaled
\* while a putObject or the invalidation is in flight.
C18_StagesInSequence ==
    IsDeploy =>
        /\ \A i \in CallsOf("putObject"), j \in CallsOf("extractEntryTo") : j < i
        /\ \A i \in CallsOf("createInvalidation"), j \in CallsOf("putObject") : j < i
        /\ CallsOf("createInvalidation") # {} => InFlight("putObject") = {}
        /\ SUCCESS \in Statuses =>
              InFlight("putObject") \cup InFlight("createInvalidation") = {}

\* a limit on the uploads in flight that is below the largest number of publish
\* tasks a package gives rise to
ParallelLimit == MaxFiles - 1

\* C19: during the publish fan-out the number of putObject requests in flight
\* stays within a limit that does not grow with the number of publish tasks.
C19_BoundedParallelism ==
    IsDeploy => Cardinality(InFlight("putObject")) <= ParallelLimit

\* C20: no step of a Create or Update invocation removes a key from a bucket:
\* what a bucket held before the step it still holds after it.
C20_DeployNeverRemoves ==
    [][(pc' \in {"running", "crashed"} /\ event'.RequestType \in {CREATE, UPDATE}) =>
          \A b \in BucketNames : bucket[b] \subseteq bucket'[b]]_vars

C20_Witness ==
    /\ IsDeploy
    /\ InvocationOver
    /\ Statuses = {SUCCESS}
    /\ \E package \in FetchedPackages :
          /\ FileKeys(package) # {}
          /\ FileKeys(package) \subseteq bucket[Destination]
          /\ bucket[Destination] \ FileKeys(package) # {}

====
